---- MODULE Spec2Model ----
(***************************************************************************)
(* The "Draft a Dockerfile from source code" wizard of aks-devx-tools:     *)
(* runDraftDockerfile, its five prompt steps and its four execute steps.   *)
(*                                                                         *)
(* An optional value (a field of Partial<PromptContext>, a string|undefined*)
(* result) is a set with at most one element: {} is undefined.             *)
(* A path or Uri is the sequence of its segments.                          *)
(***************************************************************************)
EXTENDS Integers, Sequences, FiniteSets, TLC

VARIABLES
    pc,               \* the step the wizard is about to run, or idle/done/failed
    standalone,       \* TRUE when one step's method is applied to a given context
    wizardContext,    \* the WizardContext threaded through the steps
    workspaceFolders, \* vscode.workspace.workspaceFolders
    disk,             \* the files that exist (fs.existsSync, openTextDocument)
    state,            \* the StateApi store: last port and Dockerfile path
    heap,             \* the CompletedSteps records, by reference
    completedSteps,   \* the reference handed to runDraftDockerfile
    entry,            \* the values of context, store and record when the run or step began
    trace,            \* the effects and step outcomes of this run, in order
    error             \* the message of the Error that ended the run, "" if none

vars == <<pc, standalone, wizardContext, workspaceFolders, disk, state, heap,
          completedSteps, entry, trace, error>>

----------------------------------------------------------------------------
(* Bounds *)

\* Longest folder path, in segments.
MaxDepth == 2
\* Number of CompletedSteps records alive in the extension.
NumRecords == 2

Segments == {"ws", "tmp"}
Folders == UNION {[1..n -> Segments] : n \in 1..MaxDepth}
Roots == {<<s>> : s \in Segments}
Refs == 1..NumRecords
Ports == {"80", "8080"}

None == {}
Some(x) == {x}
Get(s) == CHOOSE x \in s : TRUE
Maybe(S) == {None} \cup {Some(x) : x \in S}

----------------------------------------------------------------------------
(* The language catalog returned by getDraftLanguages *)

draftLanguages ==
    << [name |-> "Go",     id |-> "go",     versions |-> <<"1.18", "1.19">>],
       [name |-> "Python", id |-> "python", versions |-> <<"3.8">>] >>

Range(seq) == {seq[i] : i \in 1..Len(seq)}

----------------------------------------------------------------------------
(* Trace events *)

NoPath == <<>>

NoRef == 0

Ev(k, s, p, t) == [kind |-> k, step |-> s, path |-> p, text |-> t, ref |-> NoRef]

\* An event that carries a CompletedSteps reference.
EvRef(k, s, t, r) == [kind |-> k, step |-> s, path |-> NoPath, text |-> t, ref |-> r]

----------------------------------------------------------------------------
(* Paths *)

IsPrefix(p, q) == Len(p) <= Len(q) /\ SubSeq(q, 1, Len(p)) = p

\* Mutant: every folder counts as inside the first workspace folder.
getWorkspaceFolder_AnyFolder(uri) ==
    Range(workspaceFolders)

\* vscode.workspace.getWorkspaceFolder(uri): the workspace folder containing uri.
getWorkspaceFolder(uri) ==
    {w \in Range(workspaceFolders) : IsPrefix(w, uri)}

\* Mutant: the path of the .dockerignore file, as in getDockerignorePath.
getDockerfilePath_Dockerignore(ctx) ==
    IF ctx.sourceCodeFolder = None
    THEN None
    ELSE Some(Get(ctx.sourceCodeFolder) \o <<".dockerignore">>)

\* getDockerfilePath: None stands for the thrown 'Source code folder is undefined'.
getDockerfilePath(ctx) ==
    IF ctx.sourceCodeFolder = None
    THEN None
    ELSE Some(Get(ctx.sourceCodeFolder) \o <<"Dockerfile">>)

getDockerignorePath(ctx) ==
    IF ctx.sourceCodeFolder = None
    THEN None
    ELSE Some(Get(ctx.sourceCodeFolder) \o <<".dockerignore">>)

----------------------------------------------------------------------------
(* The wizard's step lists *)

\* Mutant: the language prompt listed before the overwrite warning.
promptSteps_LanguageFirst ==
    << "PromptSourceCodeFolder", "PromptLanguage", "PromptDockerfileOverride",
       "PromptVersion", "PromptPort" >>

promptSteps ==
    << "PromptSourceCodeFolder", "PromptDockerfileOverride", "PromptLanguage",
       "PromptVersion", "PromptPort" >>

\* In construction order; the wizard runs them by priority.
executeSteps ==
    << "ExecuteDraft", "ExecuteOpenDockerfiles", "ExecuteSaveState", "ExecutePromptAcr" >>

\* Mutant: the priorities of the open and save steps exchanged.
priority_SaveBeforeOpen ==
    [ ExecuteDraft |-> 1, ExecuteOpenDockerfiles |-> 3,
      ExecuteSaveState |-> 2, ExecutePromptAcr |-> 4 ]

priority ==
    [ ExecuteDraft |-> 1, ExecuteOpenDockerfiles |-> 2,
      ExecuteSaveState |-> 3, ExecutePromptAcr |-> 4 ]

\* The execute steps in ascending priority.
RECURSIVE SortByPriority(_)
SortByPriority(S) ==
    IF S = {} THEN <<>>
    ELSE LET m == CHOOSE s \in S : \A t \in S : priority[s] <= priority[t]
         IN  <<m>> \o SortByPriority(S \ {m})

sortedExecuteSteps == SortByPriority(Range(executeSteps))

\* wizard.prompt() then wizard.execute(): every step in turn.
wizardSteps == promptSteps \o sortedExecuteSteps

IndexOf(seq, x) == CHOOSE i \in 1..Len(seq) : seq[i] = x

\* The step the wizard runs after `step`.
NextAfter(step) ==
    IF standalone THEN "done"
    ELSE LET i == IndexOf(wizardSteps, step)
         IN  IF i = Len(wizardSteps) THEN "done" ELSE wizardSteps[i + 1]

----------------------------------------------------------------------------
(* Outcomes of a step *)

\* The step returned: its effects `evs` are recorded and the wizard moves on.
Completed(step, evs) ==
    /\ trace' = trace \o evs \o <<Ev("completed", step, NoPath, "")>>
    /\ pc' = NextAfter(step)
    /\ error' = error

\* shouldPrompt returned false.
Skipped(step) ==
    /\ trace' = Append(trace, Ev("skipped", step, NoPath, ""))
    /\ pc' = NextAfter(step)
    /\ error' = error

\* The step threw after the effects `evs`: the wizard stops.
Threw(step, evs, msg) ==
    /\ trace' = trace \o evs \o <<Ev("threw", step, NoPath, msg)>>
    /\ pc' = "failed"
    /\ error' = msg

UserCancelled == "Operation cancelled."

----------------------------------------------------------------------------
(* Initial states *)

EmptyContext ==
    [sourceCodeFolder |-> None, language |-> None, version |-> None, port |-> None]

EmptyState == [port |-> None, dockerfile |-> None]

Snapshot(ctx) ==
    [wizardContext |-> ctx, state |-> state, heap |-> heap]

InitEnvironment ==
    /\ workspaceFolders \in {<<>>, << <<"ws">> >>}
    /\ disk \in {{}} \cup {{f \o <<"Dockerfile">>} : f \in Folders}
    /\ state \in {EmptyState,
                  [port |-> Some("3000"), dockerfile |-> Some(<<"old", "Dockerfile">>)]}
    /\ heap = [r \in Refs |-> [draftDockerfile |-> FALSE]]
    /\ completedSteps \in Refs
    /\ trace = <<>>
    /\ error = ""

\* The extension is activated and no command has run.
Init ==
    /\ InitEnvironment
    /\ pc = "idle"
    /\ standalone = FALSE
    /\ wizardContext = EmptyContext
    /\ entry = Snapshot(EmptyContext)

\* A step's method applied on its own to any Partial<PromptContext>.
InitStandalone ==
    /\ InitEnvironment
    /\ pc \in Range(promptSteps) \cup Range(executeSteps)
    /\ standalone = TRUE
    /\ wizardContext \in [sourceCodeFolder : Maybe(Roots),
                          language : Maybe(Range(draftLanguages)),
                          version : Maybe({"1.19"}),
                          port : Maybe({"8080"})]
    /\ entry = Snapshot(wizardContext)

InitSteps == Init \/ InitStandalone

----------------------------------------------------------------------------
(* runDraftDockerfile up to the construction of the wizard *)

\* Mutant: the download result is not looked at.
downloadFailed_Ignored(downloadResult) == FALSE

\* if (!downloadResult)
downloadFailed(downloadResult) == ~downloadResult

\* `downloadResult` is FALSE when ensureDraftBinary yields no result.
runDraftDockerfile(sourceCodeFolder, downloadResult) ==
    /\ pc = "idle"
    /\ UNCHANGED <<standalone, workspaceFolders, disk, state, heap, completedSteps>>
    /\ IF downloadFailed(downloadResult)
       THEN /\ trace' = << Ev("ensureDraftBinary", "runDraftDockerfile", NoPath, "absent"),
                           Ev("showErrorMessage", "runDraftDockerfile", NoPath,
                              "Failed to download Draft") >>
            /\ pc' = "done"
            /\ UNCHANGED <<wizardContext, entry, error>>
       ELSE LET folder == IF sourceCodeFolder = None /\ Len(workspaceFolders) # 0
                          THEN Some(workspaceFolders[1])
                          ELSE sourceCodeFolder
                ctx == [EmptyContext EXCEPT !.sourceCodeFolder = folder]
            IN  /\ wizardContext' = ctx
                /\ entry' = Snapshot(ctx)
                /\ trace' = << Ev("ensureDraftBinary", "runDraftDockerfile", NoPath,
                                  IF downloadResult THEN "present" ELSE "absent"),
                               Ev("wizard", "runDraftDockerfile", NoPath, "") >>
                /\ pc' = wizardSteps[1]
                /\ error' = error

----------------------------------------------------------------------------
(* Prompt steps *)

\* `choice` is the folder picked in the open dialog, None when it is dismissed.
PromptSourceCodeFolder(choice) ==
    /\ pc = "PromptSourceCodeFolder"
    /\ UNCHANGED <<standalone, workspaceFolders, disk, state, heap, completedSteps, entry>>
    /\ LET shown == <<Ev("showOpenDialog", "PromptSourceCodeFolder",
                         IF choice = None THEN NoPath ELSE Get(choice),
                         IF choice = None THEN "dismissed" ELSE "chosen")>>
       IN  IF choice = None
           THEN /\ Threw("PromptSourceCodeFolder", shown, UserCancelled)
                /\ UNCHANGED wizardContext
           ELSE IF getWorkspaceFolder(Get(choice)) = {}
           THEN /\ Threw("PromptSourceCodeFolder", shown,
                         "Chosen Source Code Folder is not in current workspace")
                /\ UNCHANGED wizardContext
           ELSE /\ wizardContext' = [wizardContext EXCEPT !.sourceCodeFolder = choice]
                /\ Completed("PromptSourceCodeFolder", shown)

\* Mutant: the existence test inverted.
shouldPromptDockerfileOverride_Inverted(ctx) ==
    LET dockerfilePath == getDockerfilePath(ctx)
    IN  IF dockerfilePath = None THEN None
        ELSE Some(Get(dockerfilePath) \notin disk)

\* PromptDockerfileOverride.shouldPrompt; None when getDockerfilePath throws.
shouldPromptDockerfileOverride(ctx) ==
    LET dockerfilePath == getDockerfilePath(ctx)
    IN  IF dockerfilePath = None THEN None
        ELSE Some(Get(dockerfilePath) \in disk)

\* `ok` is FALSE when the modal is dismissed.
PromptDockerfileOverride(ok) ==
    /\ pc = "PromptDockerfileOverride"
    /\ UNCHANGED <<standalone, wizardContext, workspaceFolders, disk, state, heap,
                   completedSteps, entry>>
    /\ LET should == shouldPromptDockerfileOverride(wizardContext)
       IN  IF should = None
           THEN Threw("PromptDockerfileOverride", <<>>, "Source code folder is undefined")
           ELSE IF ~Get(should)
           THEN Skipped("PromptDockerfileOverride")
           ELSE LET shown == <<Ev("showWarningMessage", "PromptDockerfileOverride",
                                  Get(getDockerfilePath(wizardContext)), "Override file")>>
                IN  IF ok
                    THEN Completed("PromptDockerfileOverride", shown)
                    ELSE Threw("PromptDockerfileOverride", shown, UserCancelled)

\* Array.prototype.find: the first catalog entry with that name, None if none.
FindLanguage(label) ==
    LET hits == {i \in 1..Len(draftLanguages) : draftLanguages[i].name = label}
    IN  IF hits = {} THEN None
        ELSE Some(draftLanguages[CHOOSE i \in hits : \A j \in hits : i <= j])

\* `pick` is the label of the chosen quick-pick item, None when dismissed.
PromptLanguage(pick) ==
    /\ pc = "PromptLanguage"
    /\ UNCHANGED <<standalone, workspaceFolders, disk, state, heap, completedSteps, entry>>
    /\ LET shown == <<Ev("showQuickPick", "PromptLanguage", NoPath, "Programming Language")>>
       IN  IF pick = None
           THEN /\ Threw("PromptLanguage", shown, UserCancelled)
                /\ UNCHANGED wizardContext
           ELSE LET language == FindLanguage(Get(pick))
                IN  IF language = None
                    THEN /\ Threw("PromptLanguage", shown, "Language was not recognized")
                         /\ UNCHANGED wizardContext
                    ELSE /\ wizardContext' = [wizardContext EXCEPT !.language = language]
                         /\ Completed("PromptLanguage", shown)

\* Mutant: the versions of the first catalog entry, whatever the language.
versionOptions_FirstLanguage(language) == draftLanguages[1].versions

\* The labels of the version quick pick.
versionOptions(language) == language.versions

\* `pick` is an index into the version options, 0 when the quick pick is dismissed.
PromptVersion(pick) ==
    /\ pc = "PromptVersion"
    /\ UNCHANGED <<standalone, workspaceFolders, disk, state, heap, completedSteps, entry>>
    /\ IF wizardContext.language = None
       THEN /\ pick = 0
            /\ Threw("PromptVersion", <<>>, "Language is undefined")
            /\ UNCHANGED wizardContext
       ELSE LET language == Get(wizardContext.language)
                shown == <<Ev("showQuickPick", "PromptVersion", NoPath, "Version")>>
            IN  /\ pick \in 0..Len(versionOptions(language))
                /\ IF pick = 0
                   THEN /\ Threw("PromptVersion", shown, UserCancelled)
                        /\ UNCHANGED wizardContext
                   ELSE /\ wizardContext' =
                              [wizardContext EXCEPT !.version =
                                                  Some(versionOptions(language)[pick])]
                        /\ Completed("PromptVersion", shown)

\* `input` is the validated text of the input box, None when dismissed.
PromptPort(input) ==
    /\ pc = "PromptPort"
    /\ UNCHANGED <<standalone, workspaceFolders, disk, state, heap, completedSteps, entry>>
    /\ LET shown == <<Ev("showInputBox", "PromptPort", NoPath,
                         IF input = None THEN "dismissed" ELSE Get(input))>>
       IN  IF input = None
           THEN /\ Threw("PromptPort", shown, UserCancelled)
                /\ UNCHANGED wizardContext
           ELSE /\ wizardContext' = [wizardContext EXCEPT !.port = input]
                /\ Completed("PromptPort", shown)

----------------------------------------------------------------------------
(* Execute steps *)

\* What runDraftCommand can resolve to: [stdout, stderr], either possibly absent.
\* A string is the sequence of its characters.
Outputs == Maybe({<<>>, <<"x">>})

\* err?.length === 0 && success?.length !== 0
isSuccess(success, err) ==
    /\ err # None /\ Len(Get(err)) = 0
    /\ ~(success # None /\ Len(Get(success)) = 0)

\* How a result of runDraftCommand reads in the trace.
Describe(output) ==
    IF output = None THEN "absent"
    ELSE IF Get(output) = <<>> THEN "empty" ELSE "non-empty"

\* Mutant: the version check left out.
UndefinedField_NoVersionCheck(ctx) ==
    IF ctx.language = None THEN Some("Language is undefined")
    ELSE IF ctx.port = None THEN Some("Port is undefined")
    ELSE IF ctx.sourceCodeFolder = None THEN Some("Source code folder is undefined")
    ELSE None

\* The message of the first failed check of ExecuteDraft.execute, None if all pass.
UndefinedField(ctx) ==
    IF ctx.language = None THEN Some("Language is undefined")
    ELSE IF ctx.port = None THEN Some("Port is undefined")
    ELSE IF ctx.sourceCodeFolder = None THEN Some("Source code folder is undefined")
    ELSE IF ctx.version = None THEN Some("Version is undefined")
    ELSE None

\* `success`, `err`: the result of runDraftCommand; `created`: the files the binary wrote.
ExecuteDraft(success, err, created) ==
    /\ pc = "ExecuteDraft"
    /\ UNCHANGED <<standalone, wizardContext, workspaceFolders, state, heap,
                   completedSteps, entry>>
    /\ LET undef == UndefinedField(wizardContext)
       IN  IF undef # None
           THEN /\ success = None /\ err = None /\ created = {}
                /\ Threw("ExecuteDraft", <<>>, Get(undef))
                /\ UNCHANGED disk
           ELSE LET folder == Get(wizardContext.sourceCodeFolder)
                    ran == << Ev("buildCreateConfig", "ExecuteDraft", NoPath,
                                 Get(wizardContext.language).id),
                              Ev("runDraftCommand", "ExecuteDraft", folder, "dockerfile"),
                              Ev("stdout", "ExecuteDraft", NoPath, Describe(success)),
                              Ev("stderr", "ExecuteDraft", NoPath, Describe(err)) >>
                IN  IF isSuccess(success, err)
                    THEN /\ created \subseteq {folder \o <<".dockerignore">>,
                                               folder \o <<"Dockerfile">>}
                         /\ disk' = disk \cup created
                         /\ Completed("ExecuteDraft", ran)
                    ELSE \* nothing reads the disk after a failed run
                         /\ created = {}
                         /\ disk' = disk
                         /\ Threw("ExecuteDraft", ran, "Draft command failed")

\* The loop over [dockerignorePath, dockerPath]: the tabs opened before the
\* first file that cannot be opened, and whether every file was opened.
RECURSIVE OpenFiles(_, _)
OpenFiles(files, opened) ==
    IF files = <<>> THEN [opened |-> opened, ok |-> TRUE]
    ELSE IF Head(files) \notin disk THEN [opened |-> opened, ok |-> FALSE]
    ELSE OpenFiles(Tail(files),
                   Append(opened, Ev("showTextDocument", "ExecuteOpenDockerfiles",
                                     Head(files), "")))

ExecuteOpenDockerfiles ==
    /\ pc = "ExecuteOpenDockerfiles"
    /\ UNCHANGED <<standalone, wizardContext, workspaceFolders, disk, state, heap,
                   completedSteps, entry>>
    /\ LET dockerignorePath == getDockerignorePath(wizardContext)
           dockerPath == getDockerfilePath(wizardContext)
       IN  IF dockerignorePath = None \/ dockerPath = None
           THEN Threw("ExecuteOpenDockerfiles", <<>>, "Source code folder is undefined")
           ELSE LET r == OpenFiles(<<Get(dockerignorePath), Get(dockerPath)>>, <<>>)
                IN  IF r.ok
                    THEN Completed("ExecuteOpenDockerfiles", r.opened)
                    ELSE Threw("ExecuteOpenDockerfiles", r.opened, "cannot open file")

ExecuteSaveState ==
    /\ pc = "ExecuteSaveState"
    /\ UNCHANGED <<standalone, wizardContext, workspaceFolders, disk, heap,
                   completedSteps, entry>>
    /\ LET port == wizardContext.port
           portSet == IF port # None
                      THEN <<Ev("setPort", "ExecuteSaveState", NoPath, Get(port))>>
                      ELSE <<>>
           state1 == IF port # None THEN [state EXCEPT !.port = port] ELSE state
           dockerfilePath == getDockerfilePath(wizardContext)
       IN  IF dockerfilePath = None
           THEN /\ state' = state1
                /\ Threw("ExecuteSaveState", portSet, "Source code folder is undefined")
           ELSE /\ state' = [state1 EXCEPT !.dockerfile = dockerfilePath]
                /\ Completed("ExecuteSaveState",
                             Append(portSet, Ev("setDockerfile", "ExecuteSaveState",
                                                Get(dockerfilePath), "")))

buildAcrButton == "Build"

\* Mutant: any outcome of the notification counts as acceptance.
acrAccepted_Always(input) == TRUE

\* if (input === buildAcrButton)
acrAccepted(input) == input = Some(buildAcrButton)

\* `input` is the button chosen in the notification, None when it is dismissed.
ExecutePromptAcr(input) ==
    /\ pc = "ExecutePromptAcr"
    /\ UNCHANGED <<standalone, wizardContext, workspaceFolders, disk, state,
                   completedSteps, entry>>
    /\ LET shown == <<Ev("showInformationMessage", "ExecutePromptAcr", NoPath,
                         IF input = None THEN "dismissed" ELSE Get(input))>>
       IN  IF acrAccepted(input)
           THEN /\ heap' = [heap EXCEPT ![completedSteps].draftDockerfile = TRUE]
                /\ Completed("ExecutePromptAcr",
                       shown \o
                       << EvRef("setDraftDockerfile", "ExecutePromptAcr", "", completedSteps),
                          EvRef("executeCommand", "ExecutePromptAcr",
                                "aks-draft-extension.runBuildAcrImage", completedSteps) >>)
           ELSE /\ heap' = heap
                /\ Completed("ExecutePromptAcr", shown)

----------------------------------------------------------------------------
(* Specifications *)

\* The files the binary may write: those at the root of the chosen folder.
DraftFiles ==
    IF wizardContext.sourceCodeFolder = None THEN {}
    ELSE {Get(wizardContext.sourceCodeFolder) \o <<".dockerignore">>,
          Get(wizardContext.sourceCodeFolder) \o <<"Dockerfile">>}

VersionPicks == UNION {0..Len(l.versions) : l \in Range(draftLanguages)}

Next ==
    \/ \E f \in Maybe(Roots), d \in BOOLEAN : runDraftDockerfile(f, d)
    \/ \E choice \in Maybe(Folders) : PromptSourceCodeFolder(choice)
    \/ \E ok \in BOOLEAN : PromptDockerfileOverride(ok)
    \/ \E pick \in Maybe({l.name : l \in Range(draftLanguages)}) : PromptLanguage(pick)
    \/ \E pick \in VersionPicks : PromptVersion(pick)
    \/ \E input \in Maybe(Ports) : PromptPort(input)
    \/ \E success \in Outputs, err \in Outputs, created \in SUBSET DraftFiles :
           ExecuteDraft(success, err, created)
    \/ ExecuteOpenDockerfiles
    \/ ExecuteSaveState
    \/ \E input \in Maybe({buildAcrButton}) : ExecutePromptAcr(input)

\* The command as the extension runs it.
Spec == Init /\ [][Next]_vars

\* The command, and each step's method on any context its type admits.
SpecSteps == InitSteps /\ [][Next]_vars

----------------------------------------------------------------------------
(* Reading the trace *)

OutcomeKinds == {"completed", "skipped", "threw"}

\* The events of one step, in order.
StepEvents(s) == SelectSeq(trace, LAMBDA e : e.step = s)

\* The steps that returned, were skipped or threw, in order.
OutcomeSteps(S) ==
    LET sel == SelectSeq(trace, LAMBDA e : e.kind \in OutcomeKinds /\ e.step \in S)
    IN  [i \in 1..Len(sel) |-> sel[i].step]

\* The positions of the events of a kind.
At(kind) == {i \in 1..Len(trace) : trace[i].kind = kind}

Outcome(s, kind) == \E i \in At(kind) : trace[i].step = s

\* A run of the command whose wizard was started.
WizardRun == ~standalone /\ Len(trace) >= 2 /\ trace[2].kind = "wizard"

AnyThrew == At("threw") # {}

PromptNames ==
    {"PromptSourceCodeFolder", "PromptDockerfileOverride", "PromptLanguage",
     "PromptVersion", "PromptPort"}

ExecuteNames ==
    {"ExecuteDraft", "ExecuteOpenDockerfiles", "ExecuteSaveState", "ExecutePromptAcr"}

----------------------------------------------------------------------------
(* C1 *)

\* C1: the overwrite-warning step is skipped exactly when no file named
\* Dockerfile exists at the root of the context's source code folder when the
\* step is reached; when the file exists the warning modal is shown, and no
\* language, version or port prompt has run before it.
C1_OverrideSkippedIffNoDockerfile ==
    [][ (pc = "PromptDockerfileOverride" /\ ~standalone) =>
          LET target == Get(wizardContext.sourceCodeFolder) \o <<"Dockerfile">>
              last == trace'[Len(trace')]
          IN  /\ wizardContext.sourceCodeFolder # None
              /\ (last.kind = "skipped") <=> (target \notin disk)
              /\ target \notin disk => trace' = Append(trace, last)
              /\ target \in disk =>
                    /\ Len(trace') = Len(trace) + 2
                    /\ trace'[Len(trace) + 1].kind = "showWarningMessage"
                    /\ trace'[Len(trace) + 1].path = target
                    /\ \A i \in 1..Len(trace) :
                          trace[i].step \notin {"PromptLanguage", "PromptVersion", "PromptPort"}
    ]_vars

C1_Witness ==
    /\ WizardRun
    /\ Outcome("PromptDockerfileOverride", "skipped")
    /\ Outcome("PromptLanguage", "completed")

----------------------------------------------------------------------------
(* C2 *)

\* C2: the execute steps run in ascending priority, ExecuteDraft,
\* ExecuteOpenDockerfiles, ExecuteSaveState, ExecutePromptAcr, none is skipped,
\* each runs once in a run where none throws, and none starts before every
\* prompt step has completed or been skipped.
C2_ExecuteInPriorityOrder ==
    WizardRun =>
        LET order == << "ExecuteDraft", "ExecuteOpenDockerfiles",
                        "ExecuteSaveState", "ExecutePromptAcr" >>
            ran == OutcomeSteps(ExecuteNames)
        IN  /\ Len(ran) <= 4
            /\ ran = SubSeq(order, 1, Len(ran))
            /\ \A s \in ExecuteNames : ~Outcome(s, "skipped")
            /\ (pc = "done" /\ ~AnyThrew) => ran = order
            /\ LET exec == {i \in 1..Len(trace) : trace[i].step \in ExecuteNames}
                   first == CHOOSE i \in exec : \A j \in exec : i <= j
               IN  exec # {} =>
                      /\ \A p \in PromptNames :
                            \E j \in 1..(first - 1) :
                                /\ trace[j].step = p
                                /\ trace[j].kind \in {"completed", "skipped"}
                      /\ \A j \in first..Len(trace) : trace[j].step \notin PromptNames

C2_Witness ==
    /\ WizardRun
    /\ pc = "done"
    /\ ~AnyThrew
    /\ Outcome("ExecutePromptAcr", "completed")

----------------------------------------------------------------------------
(* C5 *)

\* C5: the prompt steps run in the order source folder, overwrite warning,
\* language, version, port; only the overwrite warning can be skipped; once a
\* prompt throws, nothing else runs.
C5_PromptsInListedOrder ==
    WizardRun =>
        LET order == << "PromptSourceCodeFolder", "PromptDockerfileOverride",
                        "PromptLanguage", "PromptVersion", "PromptPort" >>
            ran == OutcomeSteps(PromptNames)
        IN  /\ Len(ran) <= 5
            /\ ran = SubSeq(order, 1, Len(ran))
            /\ \A s \in PromptNames \ {"PromptDockerfileOverride"} : ~Outcome(s, "skipped")
            /\ \A i \in At("threw") :
                  trace[i].step \in PromptNames =>
                      /\ i = Len(trace)
                      /\ pc = "failed"
            /\ LET rank == [ PromptSourceCodeFolder |-> 1, PromptDockerfileOverride |-> 2,
                             PromptLanguage |-> 3, PromptVersion |-> 4, PromptPort |-> 5 ]
                   prompts == SelectSeq(trace, LAMBDA e : e.step \in PromptNames)
               IN  \A i \in 1..(Len(prompts) - 1) :
                      rank[prompts[i].step] <= rank[prompts[i + 1].step]

C5_Witness ==
    /\ WizardRun
    /\ Outcome("PromptDockerfileOverride", "completed")
    /\ Outcome("PromptPort", "completed")

----------------------------------------------------------------------------
(* C3 *)

AnyUndefined(ctx) ==
    \/ ctx.sourceCodeFolder = None
    \/ ctx.language = None
    \/ ctx.version = None
    \/ ctx.port = None

UndefinedMessages ==
    {"Language is undefined", "Port is undefined",
     "Source code folder is undefined", "Version is undefined"}

\* A step that did nothing but throw.
ThrewAtOnce(s) ==
    /\ Len(StepEvents(s)) = 1
    /\ StepEvents(s)[1].kind = "threw"
    /\ state = entry.state
    /\ heap = entry.heap

\* C3 as stated: every execute step throws, before any effect, when any of
\* the four context fields is undefined.
C3_EveryExecuteStepThrows ==
    \A s \in ExecuteNames :
        (StepEvents(s) # <<>> /\ AnyUndefined(wizardContext)) => ThrewAtOnce(s)

\* C3, amended: ExecuteDraft throws before any effect when any of the four
\* fields is undefined; ExecuteOpenDockerfiles and ExecuteSaveState throw
\* only when the source code folder is undefined, ExecuteSaveState after
\* writing the port if one is defined; ExecutePromptAcr never throws for a
\* missing field.
C3_ExecuteStepChecks ==
    LET ctx == wizardContext
        open == StepEvents("ExecuteOpenDockerfiles")
        save == StepEvents("ExecuteSaveState")
        acr == StepEvents("ExecutePromptAcr")
    IN  /\ (StepEvents("ExecuteDraft") # <<>> /\ AnyUndefined(ctx)) =>
               /\ ThrewAtOnce("ExecuteDraft")
               /\ StepEvents("ExecuteDraft")[1].text \in UndefinedMessages
        /\ open # <<>> =>
               IF ctx.sourceCodeFolder = None
               THEN /\ ThrewAtOnce("ExecuteOpenDockerfiles")
                    /\ open[1].text = "Source code folder is undefined"
               ELSE \A i \in 1..Len(open) : open[i].text \notin UndefinedMessages
        /\ save # <<>> =>
               IF ctx.sourceCodeFolder = None
               THEN /\ save[Len(save)].kind = "threw"
                    /\ save[Len(save)].text = "Source code folder is undefined"
                    /\ IF ctx.port = None
                       THEN ThrewAtOnce("ExecuteSaveState")
                       ELSE /\ Len(save) = 2
                            /\ save[1].kind = "setPort"
                            /\ state = [entry.state EXCEPT !.port = ctx.port]
               ELSE save[Len(save)].kind = "completed"
        /\ acr # <<>> => acr[Len(acr)].kind = "completed"

C3_Witness ==
    /\ standalone
    /\ StepEvents("ExecuteDraft") # <<>>
    /\ wizardContext.version = None
    /\ wizardContext.language # None
    /\ wizardContext.port # None
    /\ wizardContext.sourceCodeFolder # None

----------------------------------------------------------------------------
(* C4 *)

\* C4: the follow-up command is dispatched only by the priority-4 step and
\* only when 'Build' is chosen; a dismissed notification dispatches nothing
\* and leaves every CompletedSteps record as it was; on 'Build' the flag of
\* the record handed to the command is set, then that record is dispatched.
C4_DispatchOnlyOnBuild ==
    LET acr == StepEvents("ExecutePromptAcr")
        r == completedSteps
    IN  /\ \A i \in At("executeCommand") : trace[i].step = "ExecutePromptAcr"
        /\ acr = <<>> => (heap = entry.heap /\ At("executeCommand") = {})
        /\ acr # <<>> =>
              /\ acr[1].kind = "showInformationMessage"
              /\ IF acr[1].text = "Build"
                 THEN /\ Len(acr) = 4
                      /\ acr[2].kind = "setDraftDockerfile" /\ acr[2].ref = r
                      /\ acr[3].kind = "executeCommand" /\ acr[3].ref = r
                      /\ acr[3].text = "aks-draft-extension.runBuildAcrImage"
                      /\ acr[4].kind = "completed"
                      /\ heap[r].draftDockerfile
                      /\ \A q \in DOMAIN heap : q # r => heap[q] = entry.heap[q]
                 ELSE /\ Len(acr) = 2
                      /\ acr[2].kind = "completed"
                      /\ heap = entry.heap
                      /\ At("executeCommand") = {}

C4_Witness ==
    /\ WizardRun
    /\ At("executeCommand") # {}
    /\ heap[completedSteps].draftDockerfile

----------------------------------------------------------------------------
(* C6 *)

\* C6: ExecuteDraft completes without throwing exactly when the error output
\* is present and empty and the standard output is non-empty; every other
\* result makes it throw 'Draft command failed'.
C6_SuccessIffEmptyErrAndOutput ==
    \A i \in At("stdout") :
        LET out == trace[i].text
            err == trace[i + 1].text
        IN  /\ trace[i + 1].kind = "stderr"
            /\ trace[i + 2].kind \in {"completed", "threw"}
            /\ (trace[i + 2].kind = "completed") <=> (err = "empty" /\ out = "non-empty")
            /\ trace[i + 2].kind = "threw" => trace[i + 2].text = "Draft command failed"

----------------------------------------------------------------------------
(* C7 *)

\* C7: the folder step completes only for a folder inside a workspace
\* folder, and then the context holds the chosen folder; for a folder outside
\* the workspace it throws, and whenever it throws the context's source code
\* folder is the one it had before.
C7_FolderMustBeInWorkspace ==
    LET ev == StepEvents("PromptSourceCodeFolder")
    IN  ev # <<>> =>
           LET dlg == ev[1]
               inWorkspace ==
                   \E k \in 1..Len(workspaceFolders) :
                       /\ Len(workspaceFolders[k]) <= Len(dlg.path)
                       /\ \A n \in 1..Len(workspaceFolders[k]) :
                             workspaceFolders[k][n] = dlg.path[n]
           IN  /\ dlg.kind = "showOpenDialog"
               /\ Len(ev) = 2
               /\ ev[2].kind \in {"completed", "threw"}
               /\ (dlg.text = "chosen" /\ ~inWorkspace) =>
                     /\ ev[2].kind = "threw"
                     /\ ev[2].text = "Chosen Source Code Folder is not in current workspace"
               /\ ev[2].kind = "threw" =>
                     wizardContext.sourceCodeFolder = entry.wizardContext.sourceCodeFolder
               /\ ev[2].kind = "completed" <=> (dlg.text = "chosen" /\ inWorkspace)
               /\ (ev[2].kind = "completed" /\ pc = "PromptDockerfileOverride") =>
                     wizardContext.sourceCodeFolder = Some(dlg.path)

C7_Witness ==
    /\ WizardRun
    /\ pc = "failed"
    /\ error = "Chosen Source Code Folder is not in current workspace"
    /\ wizardContext.sourceCodeFolder # None
    /\ wizardContext.sourceCodeFolder # Some(StepEvents("PromptSourceCodeFolder")[1].path)

----------------------------------------------------------------------------
(* C8 *)

\* C8: the port and the Dockerfile path are written only after ExecuteDraft
\* and ExecuteOpenDockerfiles have completed; if either throws the store is
\* as it was, the notification is never shown and the binary is not run
\* again; a run that finishes has stored the port entered in the port prompt
\* and the chosen folder's Dockerfile path.
C8_StateWrittenOnlyAfterDraftAndOpen ==
    WizardRun =>
        /\ \A i \in At("setPort") \cup At("setDockerfile") :
              /\ \E j \in 1..(i - 1) :
                    trace[j].step = "ExecuteDraft" /\ trace[j].kind = "completed"
              /\ \E j \in 1..(i - 1) :
                    trace[j].step = "ExecuteOpenDockerfiles" /\ trace[j].kind = "completed"
        /\ state # entry.state => At("setPort") \cup At("setDockerfile") # {}
        /\ (Outcome("ExecuteDraft", "threw") \/ Outcome("ExecuteOpenDockerfiles", "threw")) =>
              /\ state = entry.state
              /\ At("setPort") \cup At("setDockerfile") = {}
              /\ At("showInformationMessage") = {}
              /\ pc = "failed"
              /\ trace[Len(trace)].kind = "threw"
        /\ Cardinality(At("runDraftCommand")) <= 1
        /\ (pc = "done" /\ ~AnyThrew) =>
              /\ Cardinality(At("setPort")) = 1
              /\ Cardinality(At("setDockerfile")) = 1
              /\ \E i \in At("showInputBox") : state.port = Some(trace[i].text)
              /\ \E i \in At("showOpenDialog") :
                    state.dockerfile = Some(trace[i].path \o <<"Dockerfile">>)

C8_Witness ==
    /\ WizardRun
    /\ pc = "done"
    /\ ~AnyThrew
    /\ entry.state.port # None
    /\ state.port # entry.state.port
    /\ state.dockerfile # entry.state.dockerfile

----------------------------------------------------------------------------
(* C9 *)

\* C9: after a prompt sequence that completed, the context holds a folder, a
\* language of the catalog, one of that language's versions and a port, and
\* ExecuteDraft throws no 'is undefined' error; the version prompt reached
\* with no language throws 'Language is undefined' and shows nothing.
C9_ContextPopulatedAfterPrompts ==
    /\ (~standalone /\ Outcome("PromptPort", "completed")) =>
          /\ ~AnyUndefined(wizardContext)
          /\ \E k \in 1..Len(draftLanguages) :
                /\ Get(wizardContext.language) = draftLanguages[k]
                /\ \E n \in 1..Len(draftLanguages[k].versions) :
                      Get(wizardContext.version) = draftLanguages[k].versions[n]
          /\ \A i \in At("threw") :
                trace[i].step = "ExecuteDraft" => trace[i].text \notin UndefinedMessages
    /\ (StepEvents("PromptVersion") # <<>> /\ wizardContext.language = None) =>
          StepEvents("PromptVersion") =
              <<Ev("threw", "PromptVersion", NoPath, "Language is undefined")>>

C9_Witness ==
    /\ WizardRun
    /\ Outcome("PromptPort", "completed")
    /\ Outcome("ExecuteDraft", "completed")
    /\ Get(wizardContext.language).id = "python"

----------------------------------------------------------------------------
(* C10 *)

\* C10: when the Draft binary cannot be ensured the command shows 'Failed to
\* download Draft' and ends: no step runs, the store and the CompletedSteps
\* records are as they were, and nothing is dispatched.
C10_DownloadFailureStopsTheCommand ==
    (trace # <<>> /\ trace[1].text = "absent") =>
        /\ trace = << Ev("ensureDraftBinary", "runDraftDockerfile", NoPath, "absent"),
                      Ev("showErrorMessage", "runDraftDockerfile", NoPath,
                         "Failed to download Draft") >>
        /\ pc = "done"
        /\ state = entry.state
        /\ heap = entry.heap
        /\ wizardContext = EmptyContext

C10_Witness ==
    /\ ~standalone
    /\ pc = "done"
    /\ At("showErrorMessage") # {}

====
